---- MODULE Spec2Model ----
(***************************************************************************)
(* A model of the MCP bridge of src/src/index.ts (class MyMCP: the SSE      *)
(* session registry, the keep-alive timer and the JSON-RPC dispatcher of    *)
(* MyMCP.fetch) and of the answerer pipeline of src/unnamed/part_001        *)
(* (class SearchBrowseService).                                             *)
(*                                                                          *)
(* MyMCP.fetch is an async function.  Its code between two awaits on real   *)
(* I/O runs without interruption, so each such stretch is one action:       *)
(*   InitCall        lines 26-106   (init() called by the agent framework)  *)
(*   OpenBegin       lines 112-113  (GET /mcp/sse up to the await of init())*)
(*   OpenStream      lines 114-145  (the rest of the GET)                   *)
(*   Cancel          lines 133-135  (the stream's cancel callback)          *)
(*   KeepAlive       lines 124-131  (one tick of the interval timer)        *)
(*   SubmitMessage   lines 147-154  (POST /mcp/messages up to the await of  *)
(*                                   request.json())                        *)
(*   Dispatch        lines 155-228  (the body has been read)                *)
(*   HandlerSettle   lines 199-208  (the awaited tool handler settled)      *)
(* The external libraries are not modelled beyond what the code relies on:  *)
(* McpServer.tool (line 45) is taken to return normally, and a              *)
(* ReadableStream follows the Streams standard: controller.enqueue throws   *)
(* a TypeError once the stream is no longer readable, and cancelling the    *)
(* stream closes it and runs the cancel callback in the same step.          *)
(***************************************************************************)
EXTENDS Integers, Sequences, FiniteSets, TLC

\* Bounds of the model.
MaxEvents == 4      \* requests and timer ticks in one behaviour: stream-opens + submissions + ticks
MaxParts == 2       \* source texts are up to about MaxParts character budgets long
MaxDelta == 1       \* and within MaxDelta characters of a multiple of the budget
MaxSplitParts == 6  \* for the splitting alone: texts up to about MaxSplitParts budgets long
MaxSplitDelta == 4  \* and within MaxSplitDelta characters of a multiple or a half multiple
MaxQueryLen == 2    \* characters of a search query

VARIABLES
    toolsRegistry,  \* static MyMCP.toolsRegistry: an insertion-ordered Map, as a sequence of entries
    sessions,       \* this.sessions: the registered session ids (each maps to its own controller)
    opened,         \* number of session ids drawn from crypto.randomUUID() so far
    opening,        \* number of GET /mcp/sse requests suspended at the await of init()
    readable,       \* the session ids whose ReadableStream is still readable
    stream,         \* stream[s]: the events enqueued on the controller of session s
    timers,         \* the session ids whose setInterval timer is active
    beats,          \* timer ticks so far
    nreq,           \* submissions so far; a submission is numbered on arrival
    inflight,       \* inflight[r]: the submissions suspended at an await
    last,           \* the most recent submission step: its number, its sessionId parameter and
                    \* the outcome of its fetch (Pending while the fetch is suspended)
    handlerCalls,   \* number of tool handler invocations so far
    unhandled,      \* the submissions whose detached async block ended in a rejection nobody handles
    \* one call of SearchBrowseService.getBrowseAnswer
    bLen,           \* sourceText.length
    bRetry,         \* maxRetry
    bPc,            \* "start", "waiting" (at the await of the completion calls) or "done"
    bCalls,         \* the getAiResponse calls started, in the order they were started
    bOut,           \* the value returned
    \* one top-level call of SearchBrowseService.getSearchResults
    sQuery,         \* the query of the top-level call
    sPc,            \* "start", "running" or "done"
    sStack,         \* the activations of getSearchResults, the outermost first
    sOut,           \* the string returned by the top-level call
    \* one call of the multi_search or multi_browse handler
    mTool,          \* the tool called
    mInputs,        \* its queries or urls argument
    mArg,           \* the query argument of multi_browse (empty: not given)
    mPc,            \* "start", "waiting" (at the await of Promise.all) or "done"
    mCalls,         \* the per-entry promises, in the order they were created
    mOrder,         \* the indices of the entries in the order in which they settled
    mOut            \* the outcome of the handler

sessVars == <<toolsRegistry, sessions, opened, opening, readable, stream, timers, beats,
              nreq, inflight, last, handlerCalls, unhandled>>

browseVars == <<bLen, bRetry, bPc, bCalls, bOut>>

searchVars == <<sQuery, sPc, sStack, sOut>>

multiVars == <<mTool, mInputs, mArg, mPc, mCalls, mOrder, mOut>>

vars == <<sessVars, browseVars, searchVars, multiVars>>

----------------------------------------------------------------------------
(* Tool registry: init() and registerTool, index.ts lines 26-106. *)

\* a variant that behaves like Array.prototype.push
MapPush(m, e) == Append(m, e)

\* Map.prototype.set on an insertion-ordered Map keyed by entry.name
MapSet(m, e) ==
    IF \E i \in 1..Len(m) : m[i].name = e.name
    THEN [i \in 1..Len(m) |-> IF m[i].name = e.name THEN e ELSE m[i]]
    ELSE Append(m, e)

\* Map.prototype.get: the entries stored under the key (none or one)
MapGet(m, k) == {m[i] : i \in {j \in 1..Len(m) : m[j].name = k}}

\* registerTool(name, description, schema, handler): the handler is the closure
\* registered under that name, identified here by the name
registerTool(m, name, description) ==
    MapSet(m, [name |-> name, description |-> description, handler |-> name])

\* init(): the four registerTool calls, in source order
init(m) ==
    LET t1 == registerTool(m, "search", "Search Google for a query and return brief snippets.")
        t2 == registerTool(t1, "browse", "Browse a webpage and answer a specific query based on its content.")
        t3 == registerTool(t2, "multi_search", "Perform multiple searches in parallel.")
    IN  registerTool(t3, "multi_browse", "Browse multiple webpages in parallel and answer a query.")

\* the inputSchema built for a tool name by the tools/list branch
inputSchema(name) ==
    LET str(n, d) == [name |-> n, type |-> "string", description |-> d]
        arr(n, d) == [name |-> n, type |-> "array", description |-> d]
    IN  CASE name = "search" ->
               [properties |-> <<str("query", "Search query")>>, required |-> <<"query">>]
          [] name = "browse" ->
               [properties |-> <<str("url", "The URL to browse"),
                                 str("query", "Specific question or summary request")>>,
                required |-> <<"url">>]
          [] name = "multi_search" ->
               [properties |-> <<arr("queries", "A list of search queries")>>,
                required |-> <<"queries">>]
          [] name = "multi_browse" ->
               [properties |-> <<arr("urls", "A list of URLs to browse"),
                                 str("query", "Specific question or summary request")>>,
                required |-> <<"urls">>]
          [] OTHER -> [properties |-> <<>>, required |-> <<>>]

\* availableTools: one descriptor per registry entry, in the Map's iteration order
availableTools(m) ==
    [i \in 1..Len(m) |-> [name |-> m[i].name,
                          description |-> m[i].description,
                          inputSchema |-> inputSchema(m[i].name)]]

----------------------------------------------------------------------------
(* Requests and events. *)

\* A session id is a string; the n-th UUID drawn is the one-character string <<n>>.
SessionId(n) == <<n>>

\* url.searchParams.get("sessionId"): null when the parameter is absent, else
\* the empty string, an id that is never drawn (SessionId(0)) or one of the
\* first n ids drawn
SidParams(n) ==
    {[given |-> FALSE, str |-> <<>>], [given |-> TRUE, str |-> <<>>]}
    \cup {[given |-> TRUE, str |-> SessionId(k)] : k \in 0..n}

\* !sessionId is true of null and of the empty string
Missing(p) == ~p.given \/ p.str = <<>>

\* The request bodies submitted.  json: whether request.json() yields an object
\* ("object"), the value null ("null") or throws ("invalid"); hasParams: whether
\* body.params is an object; args "valid": body.params.arguments has the shape the
\* tool's handler destructures and uses, "missing": it is undefined.
Body(json, method, id, hasParams, name, args) ==
    [json |-> json, method |-> method, id |-> id, hasParams |-> hasParams,
     name |-> name, args |-> args]

Bodies ==
    { Body("invalid", "", 0, FALSE, "", "missing"),
      Body("object", "initialize", 1, TRUE, "", "missing"),
      Body("object", "notifications/initialized", 0, FALSE, "", "missing"),
      Body("object", "tools/list", 2, FALSE, "", "missing"),
      Body("object", "tools/call", 3, TRUE, "search", "valid"),
      Body("object", "tools/call", 4, TRUE, "browse", "missing"),
      Body("object", "tools/call", 6, TRUE, "multi_browse", "valid"),
      Body("object", "tools/call", 7, TRUE, "nope", "valid"),
      Body("object", "tools/call", 9, FALSE, "", "missing"),
      Body("object", "ping", 10, FALSE, "", "missing") }

\* The outcome of one fetch: an HTTP response, or a rejection (the function threw)
Response(code) == [kind |-> "response", code |-> code]
Throws == [kind |-> "throws", code |-> 0]
Pending == [kind |-> "pending", code |-> 0]

\* Events on a stream.  req is the number of the submission that caused the event
\* (0: none); it is not part of the frame.
EndpointEvent(sid) ==
    [event |-> "endpoint", data |-> <<"/mcp/messages?sessionId=", sid>>, req |-> 0]
KeepAliveFrame == [event |-> "comment", data |-> <<"keep-alive">>, req |-> 0]
MessageEvent(r, payload) == [event |-> "message", data |-> payload, req |-> r]

\* JSON-RPC responses
RpcResult(id, result) == [jsonrpc |-> "2.0", id |-> id, kind |-> "result", code |-> 0, body |-> result]
RpcError(id, code, message) == [jsonrpc |-> "2.0", id |-> id, kind |-> "error", code |-> code, body |-> message]

----------------------------------------------------------------------------
(* The session registry and the stream controllers. *)

\* this.sessions.get(sessionId): whether a controller is registered under the id
SessionsGet(reg, sid) == sid \in reg

\* a variant that leaves the entry in place
SessionsKeep(reg, sid) == reg

\* this.sessions.delete(sessionId)
SessionsDelete(reg, sid) == reg \ {sid}

\* a variant that leaves the timer running
ClearNothing(ts, sid) == ts

\* clearInterval(timer) on the timer of session sid, line 128
ClearInterval(ts, sid) == ts \ {sid}

\* controller.enqueue on the controller of session ctl: it throws unless the
\* stream is readable
CanEnqueue(ctl) == ctl \in readable

\* a variant that writes the event to every stream
EnqueueBroadcast(st, ctl, e) == [s \in DOMAIN st |-> Append(st[s], e)]

\* the event is appended to the stream of that controller
Enqueue(st, ctl, e) == [st EXCEPT ![ctl] = Append(@, e)]

\* a variant that writes a keep-alive frame before the endpoint event
StartFramesKeepAliveFirst(sid) == <<KeepAliveFrame, EndpointEvent(sid)>>

\* what start() enqueues on a new stream, lines 120-121
StartFrames(sid) == <<EndpointEvent(sid)>>

\* the result a tool handler resolves to (lines 56, 70, 85, 103); the text is
\* what the service returned, named here after the tool
HandlerResult(name) == [content |-> <<[type |-> "text", text |-> name]>>]

\* Whether the handler's promise rejects: the handlers destructure their
\* argument ({ query }, { url, query }, ...), which throws a TypeError on
\* undefined; on arguments of the declared shape the service catches every
\* collaborator failure itself (part_001 lines 41, 91, 167)
HandlerRaises(body) == body.args # "valid"

\* e.message of that TypeError
HandlerMessage(body) == "TypeError"

----------------------------------------------------------------------------
(* The JSON-RPC responses of the dispatcher. *)

ToolsListResponse(id, m) == RpcResult(id, [tools |-> availableTools(m)])

\* a variant with the code of "Invalid params"
ToolNotFoundAsInvalidParams(id) == RpcError(id, -32602, "Tool not found")

ToolNotFoundResponse(id) == RpcError(id, -32601, "Tool not found")

InitializeResponse(id) ==
    RpcResult(id, [protocolVersion |-> "2024-11-05",
                   serverInfo |-> [name |-> "MiniMax Search MCP Server", version |-> "1.0.0"]])

ToolResultResponse(id, result) == RpcResult(id, result)

ToolErrorResponse(id, message) == RpcError(id, -32000, message)

----------------------------------------------------------------------------
(* Actions of MyMCP.fetch. *)

\* the requests and ticks so far
Events == opened + opening + nreq + beats

SessInit ==
    /\ toolsRegistry = <<>>
    /\ sessions = {}
    /\ opened = 0
    /\ opening = 0
    /\ readable = {}
    /\ stream = [s \in {} |-> <<>>]
    /\ timers = {}
    /\ beats = 0
    /\ nreq = 0
    /\ inflight = [r \in {} |-> 0]
    /\ last = [req |-> 0, param |-> [given |-> FALSE, str |-> <<>>], outcome |-> Pending]
    /\ handlerCalls = 0
    /\ unhandled = {}

\* init() called on its own: the agent framework calls it when it starts the
\* object for the routes of lines 249-250
InitCall ==
    /\ toolsRegistry' = init(toolsRegistry)
    /\ UNCHANGED <<sessions, opened, opening, readable, stream, timers, beats, nreq, inflight,
                   last, handlerCalls, unhandled, browseVars, searchVars, multiVars>>

\* GET /mcp/sse, lines 112-113: init() runs and the request is suspended at
\* the await
OpenBegin ==
    /\ Events < MaxEvents
    /\ toolsRegistry' = init(toolsRegistry)
    /\ opening' = opening + 1
    /\ UNCHANGED <<sessions, opened, readable, stream, timers, beats, nreq, inflight, last,
                   handlerCalls, unhandled, browseVars, searchVars, multiVars>>

\* the rest of the GET, lines 114-145: the id is drawn, and start() registers
\* the controller, writes the endpoint event and starts the timer
OpenStream ==
    /\ opening > 0
    /\ opening' = opening - 1
    /\ LET sid == SessionId(opened + 1) IN
         /\ opened' = opened + 1
         /\ sessions' = sessions \cup {sid}
         /\ readable' = readable \cup {sid}
         /\ stream' = (sid :> StartFrames(sid)) @@ stream
         /\ timers' = timers \cup {sid}
    /\ UNCHANGED <<toolsRegistry, beats, nreq, inflight, last, handlerCalls, unhandled,
                   browseVars, searchVars, multiVars>>

\* the consumer cancels the stream: the stream closes and the cancel callback
\* of lines 133-135 runs
Cancel(sid) ==
    /\ sid \in readable
    /\ readable' = readable \ {sid}
    /\ sessions' = SessionsDelete(sessions, sid)
    /\ UNCHANGED <<toolsRegistry, opened, opening, stream, timers, beats, nreq, inflight,
                   last, handlerCalls, unhandled, browseVars, searchVars, multiVars>>

\* one tick of the keep-alive timer of session sid, lines 124-131
KeepAlive(sid) ==
    /\ sid \in timers
    /\ Events < MaxEvents
    /\ beats' = beats + 1
    /\ IF CanEnqueue(sid)
       THEN /\ stream' = Enqueue(stream, sid, KeepAliveFrame)
            /\ UNCHANGED <<timers, sessions>>
       ELSE /\ timers' = ClearInterval(timers, sid)
            /\ sessions' = SessionsDelete(sessions, sid)
            /\ UNCHANGED stream
    /\ UNCHANGED <<toolsRegistry, opened, opening, readable, nreq, inflight, last,
                   handlerCalls, unhandled, browseVars, searchVars, multiVars>>

\* a variant that reads the body before it looks the session up
SubmitStatusParsesFirst(reg, p, b) ==
    IF Missing(p) THEN Response(400)
    ELSE IF b.json = "invalid" THEN Throws
    ELSE IF ~SessionsGet(reg, p.str) THEN Response(404)
    ELSE Pending

\* the status of lines 148-152, or Pending when the request goes on
SubmitStatus(reg, p, b) ==
    IF Missing(p) THEN Response(400)
    ELSE IF ~SessionsGet(reg, p.str) THEN Response(404)
    ELSE Pending

\* POST /mcp/messages?sessionId=p with body b, lines 147-154; an accepted
\* request is suspended at the await of request.json()
SubmitMessage(p, b) ==
    /\ Events < MaxEvents
    /\ nreq' = nreq + 1
    /\ LET r == nreq + 1
           out == SubmitStatus(sessions, p, b)
       IN  /\ last' = [req |-> r, param |-> p, outcome |-> out]
           /\ IF out = Pending
              THEN /\ toolsRegistry' = init(toolsRegistry)
                   /\ inflight' = (r :> [sid |-> p.str, body |-> b, phase |-> "body",
                                         outcome |-> Pending]) @@ inflight
              ELSE UNCHANGED <<toolsRegistry, inflight>>
    /\ UNCHANGED <<sessions, opened, opening, readable, stream, timers, beats, handlerCalls, unhandled,
                   browseVars, searchVars, multiVars>>

Without(f, r) == [x \in DOMAIN f \ {r} |-> f[x]]

Finish(r, out) ==
    last' = [req |-> r, param |-> [given |-> TRUE, str |-> inflight[r].sid], outcome |-> out]

\* a synchronous reply: the enqueue of lines 190, 196, 223 and the 202 after it
Reply(r, ctl, payload) ==
    IF CanEnqueue(ctl)
    THEN /\ stream' = Enqueue(stream, ctl, MessageEvent(r, payload))
         /\ Finish(r, Response(202))
    ELSE /\ Finish(r, Throws)
         /\ UNCHANGED stream

\* a variant that awaits the block: no response while the handler runs
AwaitedAck == Pending

\* the outcome of the fetch while the detached block of lines 199-208 is
\* suspended at its await: the block is not awaited, so line 210 has returned
DetachedAck == Response(202)

\* the rest of the POST once request.json() has settled, lines 155-228
Dispatch(r) ==
    /\ r \in DOMAIN inflight
    /\ inflight[r].phase = "body"
    /\ LET b == inflight[r].body
           ctl == inflight[r].sid
           done == inflight' = Without(inflight, r)
       IN
       CASE b.json # "object" ->
              \* request.json() rejects, or body.method reads a property of null
              /\ Finish(r, Throws) /\ done
              /\ UNCHANGED <<stream, handlerCalls>>
         [] b.json = "object" /\ b.method = "tools/list" ->
              /\ Reply(r, ctl, ToolsListResponse(b.id, toolsRegistry)) /\ done
              /\ UNCHANGED handlerCalls
         [] b.json = "object" /\ b.method = "tools/call" ->
              IF ~b.hasParams
              THEN \* body.params.name reads a property of undefined
                   /\ Finish(r, Throws) /\ done
                   /\ UNCHANGED <<stream, handlerCalls>>
              ELSE IF MapGet(toolsRegistry, b.name) = {}
              THEN /\ Reply(r, ctl, ToolNotFoundResponse(b.id)) /\ done
                   /\ UNCHANGED handlerCalls
              ELSE \* the detached async block calls the handler and awaits it
                   /\ handlerCalls' = handlerCalls + 1
                   /\ inflight' = [inflight EXCEPT ![r].phase = "handler",
                                                    ![r].outcome = DetachedAck]
                   /\ Finish(r, DetachedAck)
                   /\ UNCHANGED stream
         [] b.json = "object" /\ b.method = "initialize" ->
              /\ Reply(r, ctl, InitializeResponse(b.id)) /\ done
              /\ UNCHANGED handlerCalls
         [] b.json = "object" /\ b.method = "notifications/initialized" ->
              /\ Finish(r, Response(202)) /\ done
              /\ UNCHANGED <<stream, handlerCalls>>
         [] OTHER ->
              /\ Finish(r, Response(501)) /\ done
              /\ UNCHANGED <<stream, handlerCalls>>
    /\ UNCHANGED <<toolsRegistry, sessions, opened, opening, readable, timers, beats, nreq, unhandled,
                   browseVars, searchVars, multiVars>>

\* a variant whose catch block reports the failure as a result
SettleResponseSwallowsError(b) == ToolResultResponse(b.id, HandlerResult(b.name))

\* the message the detached block tries to write first: the result (line 203),
\* or the error when the handler raised (line 206)
SettleResponse(b) ==
    IF HandlerRaises(b)
    THEN ToolErrorResponse(b.id, HandlerMessage(b))
    ELSE ToolResultResponse(b.id, HandlerResult(b.name))

\* the awaited handler of request r has settled, lines 201-207.  An enqueue
\* that throws inside try is caught, and the catch block's own enqueue throws
\* again: the block's promise then rejects and nothing handles it.
HandlerSettle(r) ==
    /\ r \in DOMAIN inflight
    /\ inflight[r].phase = "handler"
    /\ LET b == inflight[r].body
           ctl == inflight[r].sid
       IN  IF CanEnqueue(ctl)
           THEN /\ stream' = Enqueue(stream, ctl, MessageEvent(r, SettleResponse(b)))
                /\ UNCHANGED unhandled
           ELSE /\ unhandled' = unhandled \cup {r}
                /\ UNCHANGED stream
    /\ inflight' = Without(inflight, r)
    /\ UNCHANGED <<toolsRegistry, sessions, opened, opening, readable, timers, beats, nreq,
                   last, handlerCalls, browseVars, searchVars, multiVars>>

----------------------------------------------------------------------------
(* SearchBrowseService.getAiResponse and getBrowseAnswer, part_001 lines    *)
(* 27-49 and 131-159.  A text is known by its length, a chunk by the range  *)
(* of positions it covers; a string is a sequence of tokens.                *)

tokenLimit == 190000
charLimit == tokenLimit * 4
Overlap == 1024
DefaultAiRetry == 2
DefaultBrowseRetry == 3
BackoffBase == 1000

\* the retry budgets getBrowseAnswer is called with
RetryBudgets == {1, DefaultAiRetry, DefaultBrowseRetry}

\* the lengths of the source texts
Lengths ==
    {n \in {k * charLimit + d : k \in 0..MaxParts, d \in (0 - MaxDelta)..MaxDelta} : n >= 0}

\* the lengths for which only the splitting is followed
SplitLengths ==
    {n \in {k * charLimit + h * (charLimit \div 2) + d :
               k \in 0..MaxSplitParts, h \in 0..1, d \in (0 - MaxSplitDelta)..MaxSplitDelta} :
        n >= 0}

Min(a, b) == IF a <= b THEN a ELSE b
Max(a, b) == IF a >= b THEN a ELSE b

\* a variant that rounds down
Floor(a, b) == a \div b

\* Math.ceil(a / b) for non-negative integers a and b > 0 (exact in doubles for
\* string lengths)
Ceil(a, b) == (a + b - 1) \div b

\* Math.pow(2, i)
RECURSIVE Pow2(_)
Pow2(i) == IF i <= 0 THEN 1 ELSE 2 * Pow2(i - 1)

\* String.prototype.slice(from, to) on a string of length len, 0 <= from <= to:
\* the half-open range of positions taken
Slice(len, from, to) ==
    [from |-> Min(from, len), to |-> Max(Min(to, len), Min(from, len))]

\* a string | null value
Null == [null |-> TRUE, text |-> <<>>]
Str(t) == [null |-> FALSE, text |-> t]

\* !v for a string | null value: null and the empty string are falsy
Falsy(v) == v.null \/ v.text = <<>>

\* The completions the provider returns: message.content as tokens, a <think>
\* block being one token and " " white space.
Think == "<think>..</think>"
Contents == { <<>>, <<"answer">>, <<Think, " ", "answer", " ">>, <<Think>>, <<" ">> }

\* content.replace(/<think>[\s\S]*?<\/think>/g, "")
StripThink(t) == SelectSeq(t, LAMBDA x : x # Think)

\* String.prototype.trim
RECURSIVE Trim(_)
Trim(t) ==
    IF t = <<>> THEN t
    ELSE IF Head(t) = " " THEN Trim(Tail(t))
    ELSE IF t[Len(t)] = " " THEN Trim(SubSeq(t, 1, Len(t) - 1))
    ELSE t

\* lines 37-40: what getAiResponse returns for a received content
Answer(content) == Str(Trim(StripThink(content)))

\* numSplit and chunkLen, lines 137-138
NumSplit(len) == Ceil(len, charLimit)
ChunkLen(len) == Ceil(len, NumSplit(len))

\* a variant whose chunks end where the next one begins
ChunkWithoutOverlap(len, i) == Slice(len, i * ChunkLen(len), (i + 1) * ChunkLen(len))

\* the range of chunk i (0-based), line 143
Chunk(len, i) == Slice(len, i * ChunkLen(len), (i + 1) * ChunkLen(len) + Overlap)

\* a getAiResponse call that has just been started on the text range rng:
\* i is the loop variable, delays the setTimeout delays so far
NewCall(rng) == [range |-> rng, i |-> 0, delays |-> <<>>, settled |-> FALSE, value |-> Null]

\* the calls getBrowseAnswer starts: one per chunk (lines 142-146), or one on
\* the whole text (line 157)
StartedCalls(len) ==
    IF len > charLimit
    THEN [k \in 1..NumSplit(len) |-> NewCall(Chunk(len, k - 1))]
    ELSE <<NewCall(Slice(len, 0, len))>>

SplitNote == "Since the content is too long, the result is split and answered separately. Please combine the results to get the complete answer.\n"

\* one part of the composite, line 152 (i is 0-based)
Part(i, text) ==
    <<"--- begin of result part ", ToString(i + 1), " ---\n">> \o text
       \o <<"\n--- end of result part ", ToString(i + 1), " ---\n\n">>

\* a variant that skips a part that has no answer
RECURSIVE CombineSkipsFailed(_, _, _)
CombineSkipsFailed(results, i, combined) ==
    IF i >= Len(results) THEN Str(combined)
    ELSE IF Falsy(results[i + 1]) THEN CombineSkipsFailed(results, i + 1, combined)
    ELSE CombineSkipsFailed(results, i + 1, combined \o Part(i, results[i + 1].text))

\* the loop of lines 150-153 from index i on, and the return of line 154
RECURSIVE CombineLoop(_, _, _)
CombineLoop(results, i, combined) ==
    IF i >= Len(results) THEN Str(combined)
    ELSE IF Falsy(results[i + 1]) THEN Null
    ELSE CombineLoop(results, i + 1, combined \o Part(i, results[i + 1].text))

\* a variant that leaves a failed part out of the composite
CombineSkipping(results) == CombineSkipsFailed(results, 0, <<SplitNote>>)

\* lines 148-154
Combine(results) == CombineLoop(results, 0, <<SplitNote>>)

BrowseIdle ==
    /\ bLen = 0 /\ bRetry = 0 /\ bPc = "idle" /\ bCalls = <<>> /\ bOut = Null

BrowseInit ==
    /\ bLen \in Lengths
    /\ bRetry \in RetryBudgets
    /\ bPc = "start"
    /\ bCalls = <<>>
    /\ bOut = Null

\* getBrowseAnswer up to its await: lines 133-148, or 156-157
BrowseStart ==
    /\ bPc = "start"
    /\ bCalls' = StartedCalls(bLen)
    /\ bPc' = "waiting"
    /\ UNCHANGED <<bLen, bRetry, bOut, sessVars, searchVars, multiVars>>

\* a variant that also waits after the last attempt
AiFailsAlwaysWaits(call, maxRetry) ==
    [call EXCEPT !.i = @ + 1,
                 !.delays = Append(@, BackoffBase * Pow2(call.i)),
                 !.settled = (call.i + 1 >= maxRetry),
                 !.value = Null]

\* one iteration of the loop of getAiResponse, lines 28-47, in call c: the
\* request fails, or it returns the content
AiFails(call, maxRetry) ==
    [call EXCEPT !.i = @ + 1,
                 !.delays = IF call.i < maxRetry - 1
                            THEN Append(@, BackoffBase * Pow2(call.i)) ELSE @,
                 !.settled = (call.i + 1 >= maxRetry),
                 !.value = Null]

AiReturns(call, content) ==
    [call EXCEPT !.settled = TRUE, !.value = Answer(content)]

AiAttempt(c) ==
    /\ bPc = "waiting"
    /\ c \in 1..Len(bCalls)
    /\ ~bCalls[c].settled
    /\ \/ bCalls' = [bCalls EXCEPT ![c] = AiFails(@, bRetry)]
       \/ \E content \in Contents : bCalls' = [bCalls EXCEPT ![c] = AiReturns(@, content)]
    /\ UNCHANGED <<bLen, bRetry, bPc, bOut, sessVars, searchVars, multiVars>>

\* Promise.all has resolved: lines 148-154, or the return of line 157
BrowseJoin ==
    /\ bPc = "waiting"
    /\ \A c \in 1..Len(bCalls) : bCalls[c].settled
    /\ bOut' = IF bLen > charLimit
               THEN Combine([c \in 1..Len(bCalls) |-> bCalls[c].value])
               ELSE bCalls[1].value
    /\ bPc' = "done"
    /\ UNCHANGED <<bLen, bRetry, bCalls, sessVars, searchVars, multiVars>>

BrowseNext ==
    \/ BrowseStart
    \/ \E c \in 1..Len(bCalls) : AiAttempt(c)
    \/ BrowseJoin

----------------------------------------------------------------------------
(* SearchBrowseService.getBriefText and getSearchResults, part_001 lines    *)
(* 66-109.  A query is a sequence of characters, a text a sequence of       *)
(* tokens; the phrase "Please try again" is one token.                      *)

DefaultSearchRetry == 3

Quote == "\""
PleaseTryAgain == "Please try again"

RECURSIVE SeqsUpTo(_, _)
SeqsUpTo(S, n) ==
    IF n = 0 THEN {<<>>}
    ELSE SeqsUpTo(S, n - 1)
         \cup {Append(q, x) : q \in {t \in SeqsUpTo(S, n - 1) : Len(t) = n - 1}, x \in S}

\* the queries: a letter, a blank and the double quote
Queries == SeqsUpTo({"a", " ", Quote}, MaxQueryLen)

\* One organic result of the search provider; an absent field is <<>>.
Result(snippet, extra) ==
    [title |-> "title", url |-> "url", snippet |-> snippet, extra_snippets |-> extra,
     description |-> <<>>]

\* what searchGoogle resolves to: data.organic || []
ResultLists ==
    { <<>>,
      <<Result(<<"snippet">>, <<>>)>>,
      <<Result(<<"snippet">>, <<>>), Result(<<>>, <<"They said: ", PleaseTryAgain>>)>> }

\* the snippet getBriefText takes from one result, lines 69-76
SnippetOf(content) ==
    IF content.extra_snippets # <<>> THEN content.extra_snippets
    ELSE IF content.snippet # <<>> THEN content.snippet
    ELSE content.description

\* getBriefText, lines 66-81; the "\n\n" that ends an entry is white space
RECURSIVE BriefLoop(_, _)
BriefLoop(contents, sourceText) ==
    IF contents = <<>> THEN sourceText
    ELSE BriefLoop(Tail(contents),
                   sourceText \o <<"<title>", Head(contents).title, "</title>\n<url>",
                                   Head(contents).url, "</url>\n<snippet>\n">>
                              \o SnippetOf(Head(contents)) \o <<"\n</snippet>", " ">>)

getBriefText(contents) == Trim(BriefLoop(contents, <<>>))

\* String.prototype.includes for a one-token needle
Includes(text, token) == \E k \in 1..Len(text) : text[k] = token

\* a variant that leaves the quotes in
CleanedKeepsQuotes(query) == query

\* query.replace(/"/g, "")
Cleaned(query) == SelectSeq(query, LAMBDA ch : ch # Quote)

EmptyResultMessage == <<"Search result is empty. ", PleaseTryAgain, ".">>

\* the message of line 102
FallbackMessage(query) ==
    <<"Search result for query [">> \o query
       \o <<"] is empty. Return search result for cleaned query instead.">>

\* line 104: what the caller returns for the fallback's result
FallbackResult(query, fallback) ==
    IF fallback # <<>> /\ ~Includes(fallback, PleaseTryAgain)
    THEN FallbackMessage(query) \o <<"\n\n">> \o fallback
    ELSE EmptyResultMessage

\* an activation of getSearchResults: i is the loop variable, inLoop whether
\* the loop of lines 86-97 is still running
Activation(query, maxRetry) ==
    [query |-> query, maxRetry |-> maxRetry, i |-> 0, sourceText |-> <<>>,
     inLoop |-> TRUE, delays |-> <<>>, calls |-> 0]

SearchIdle ==
    /\ sQuery = <<>> /\ sPc = "idle" /\ sStack = <<>> /\ sOut = <<>>

SearchInit ==
    /\ sQuery \in Queries
    /\ sPc = "start"
    /\ sStack = <<>>
    /\ sOut = <<>>

\* the top-level call is entered: line 84
SearchEnter ==
    /\ sPc = "start"
    /\ IF Trim(sQuery) = <<>>
       THEN sOut' = EmptyResultMessage /\ sPc' = "done" /\ UNCHANGED sStack
       ELSE sStack' = <<Activation(sQuery, DefaultSearchRetry)>> /\ sPc' = "running"
                /\ UNCHANGED sOut
    /\ UNCHANGED <<sQuery, sessVars, browseVars, multiVars>>

\* one iteration of the loop of lines 86-97 whose searchGoogle call throws
SearchThrows(a) ==
    [a EXCEPT !.i = @ + 1, !.calls = @ + 1,
              !.delays = IF a.i < a.maxRetry - 1
                         THEN Append(@, BackoffBase * Pow2(a.i)) ELSE @,
              !.inLoop = (a.i + 1 < a.maxRetry)]

\* one iteration whose searchGoogle call resolves to results
SearchResolves(a, results) ==
    LET text == getBriefText(results) IN
    [a EXCEPT !.sourceText = text, !.calls = @ + 1,
              !.i = IF text # <<>> THEN @ ELSE @ + 1,
              !.inLoop = (text = <<>> /\ a.i + 1 < a.maxRetry)]

\* the innermost activation makes one retrieval attempt
SearchAttempt ==
    /\ sPc = "running"
    /\ sStack[Len(sStack)].inLoop
    /\ \/ sStack' = [sStack EXCEPT ![Len(sStack)] = SearchThrows(@)]
       \/ \E results \in ResultLists :
             sStack' = [sStack EXCEPT ![Len(sStack)] = SearchResolves(@, results)]
    /\ UNCHANGED <<sQuery, sPc, sOut, sessVars, browseVars, multiVars>>

\* what an activation whose loop has ended returns without a fallback: lines
\* 99-108 for a query that needs none
ReturnOf(a) == IF a.sourceText # <<>> THEN a.sourceText ELSE EmptyResultMessage

\* whether the activation goes on to the fallback of lines 100-104
NeedsFallback(a) == a.sourceText = <<>> /\ Includes(a.query, Quote)

\* the value the innermost activation returns, handed down through the callers
\* that await it (each at line 103)
RECURSIVE Unwind(_, _)
Unwind(stack, value) ==
    IF stack = <<>> THEN value
    ELSE Unwind(SubSeq(stack, 1, Len(stack) - 1),
                FallbackResult(stack[Len(stack)].query, value))

\* the loop of the innermost activation has ended: lines 99-108.  It returns,
\* or calls getSearchResults(cleaned), which returns at once for a blank query
\* (line 84) and else becomes the innermost activation.
SearchAfterLoop ==
    /\ sPc = "running"
    /\ ~sStack[Len(sStack)].inLoop
    /\ LET a == sStack[Len(sStack)]
           callers == SubSeq(sStack, 1, Len(sStack) - 1)
       IN  IF ~NeedsFallback(a)
           THEN /\ sOut' = Unwind(callers, ReturnOf(a))
                /\ sPc' = "done"
                /\ UNCHANGED sStack
           ELSE IF Trim(Cleaned(a.query)) = <<>>
           THEN /\ sOut' = Unwind(sStack, EmptyResultMessage)
                /\ sPc' = "done"
                /\ UNCHANGED sStack
           ELSE /\ sStack' = Append(sStack, Activation(Cleaned(a.query), DefaultSearchRetry))
                /\ UNCHANGED <<sOut, sPc>>
    /\ UNCHANGED <<sQuery, sessVars, browseVars, multiVars>>

SearchNext ==
    \/ SearchEnter
    \/ SearchAttempt
    \/ SearchAfterLoop

----------------------------------------------------------------------------
(* The multi_search and multi_browse handlers, index.ts lines 79-86 and     *)
(* 97-104, with SearchBrowseService.getSearchResults and getBrowseResults   *)
(* (part_001 lines 83-109 and 161-180) as functions of what their           *)
(* collaborators do.  A collaborator's behaviour towards one entry is a     *)
(* script: it fails on the first calls it receives and gives one final      *)
(* outcome on every later call.                                             *)

MaxEntries == 2     \* entries in the queries or urls argument

\* the entries of a queries argument: a plain query, a quoted one, a blank one
QueryEntries == {<<"a">>, <<"a", Quote>>, <<" ">>}

\* the entries of a urls argument
UrlEntries == {"u1", "u2"}

\* the query argument of multi_browse: absent, or a question
BrowseQueries == {<<>>, <<"q">>}

\* searchGoogle towards one entry: the first `fails` calls throw (kind
\* "throws") or resolve to no result (kind "empty"), every later call resolves
\* to the result list `final`
SearchScripts ==
    [fails : 0..(2 * DefaultSearchRetry), kind : {"throws", "empty"},
     final : ResultLists \ {<<>>}]

\* the calls of searchGoogle made so far by the activations of a stack
RECURSIVE CallsOf(_)
CallsOf(stack) ==
    IF stack = <<>> THEN 0 ELSE stack[Len(stack)].calls + CallsOf(SubSeq(stack, 1, Len(stack) - 1))

\* getSearchResults from the state `stack` of its activations on: the loop of
\* lines 86-97 and the fallback of lines 99-108
RECURSIVE SearchRun(_, _)
SearchRun(stack, script) ==
    LET a == stack[Len(stack)]
        callers == SubSeq(stack, 1, Len(stack) - 1)
    IN  IF a.inLoop
        THEN IF CallsOf(stack) < script.fails
             THEN IF script.kind = "throws"
                  THEN SearchRun([stack EXCEPT ![Len(stack)] = SearchThrows(@)], script)
                  ELSE SearchRun([stack EXCEPT ![Len(stack)] = SearchResolves(@, <<>>)], script)
             ELSE SearchRun([stack EXCEPT ![Len(stack)] = SearchResolves(@, script.final)], script)
        ELSE IF ~NeedsFallback(a) THEN Unwind(callers, ReturnOf(a))
        ELSE IF Trim(Cleaned(a.query)) = <<>> THEN Unwind(stack, EmptyResultMessage)
        ELSE SearchRun(Append(stack, Activation(Cleaned(a.query), DefaultSearchRetry)), script)

\* getSearchResults(query), lines 83-109
getSearchResults(query, script) ==
    IF Trim(query) = <<>> THEN EmptyResultMessage
    ELSE SearchRun(<<Activation(query, DefaultSearchRetry)>>, script)

\* A page text as readJina returns it: its length and whether it is all white space
Page(len, blank) == [len |-> len, blank |-> blank]

\* the texts readJina resolves to: white space only, a short page, a page
\* longer than the character budget
PageTexts == {Page(1, TRUE), Page(10, FALSE), Page(charLimit + 1, FALSE)}

\* readJina towards one entry: the first `fails` calls throw an error whose
\* message does not contain "Client Error" (kind "throws") or resolve to the
\* empty text (kind "empty"); every later call throws an error whose message
\* contains "Client Error" (final "denied") or resolves to the page `page`
JinaScripts ==
    [fails : 0..DefaultBrowseRetry, kind : {"throws", "empty"},
     final : {"denied", "page"}, page : PageTexts]

\* the completion provider towards one chunk: the first `fails` requests fail,
\* every later one returns `content`
AiScripts == [fails : 0..DefaultBrowseRetry, content : Contents]

AccessDenied == <<"Access to this URL is denied. ", PleaseTryAgain, ".">>
BrowseError == <<"Browse error. ", PleaseTryAgain, ".">>
DefaultBrowseQuery == <<"Detailed summary of the page.">>

\* the locals of getBrowseResults while it reads the page: returned is the
\* early return of line 169, raised an exception that leaves the function
ReadState(maxRetry) ==
    [i |-> 0, maxRetry |-> maxRetry, sourceText |-> Page(0, FALSE), inLoop |-> TRUE,
     delays |-> <<>>, returned |-> FALSE, raised |-> FALSE]

\* a variant without the catch block: the exception leaves the function
ReadThrowsUncaught(st, clientError) == [st EXCEPT !.inLoop = FALSE, !.raised = TRUE]

\* the catch block of lines 167-173
ReadThrows(st, clientError) ==
    IF clientError
    THEN [st EXCEPT !.inLoop = FALSE, !.returned = TRUE]
    ELSE [st EXCEPT !.i = @ + 1,
                    !.delays = IF st.i < st.maxRetry - 1
                               THEN Append(@, BackoffBase * Pow2(st.i)) ELSE @,
                    !.inLoop = (st.i + 1 < st.maxRetry)]

\* lines 165-166: readJina resolved to text
ReadResolves(st, text) ==
    [st EXCEPT !.sourceText = text,
               !.i = IF text.len > 0 THEN @ ELSE @ + 1,
               !.inLoop = (text.len = 0 /\ st.i + 1 < st.maxRetry)]

\* the loop of lines 163-174; calls counts the readJina calls made
RECURSIVE ReadLoop(_, _, _)
ReadLoop(st, script, calls) ==
    IF ~st.inLoop THEN st
    ELSE IF calls < script.fails
    THEN IF script.kind = "throws"
         THEN ReadLoop(ReadThrows(st, FALSE), script, calls + 1)
         ELSE ReadLoop(ReadResolves(st, Page(0, FALSE)), script, calls + 1)
    ELSE IF script.final = "denied"
    THEN ReadLoop(ReadThrows(st, TRUE), script, calls + 1)
    ELSE ReadLoop(ReadResolves(st, script.page), script, calls + 1)

\* line 176: !sourceText || !sourceText.trim()
NoText(text) == text.len = 0 \/ text.blank

\* getAiResponse from the state `call` on, lines 28-48
RECURSIVE AiRun(_, _, _)
AiRun(call, maxRetry, script) ==
    IF call.settled \/ maxRetry <= 0 THEN [call EXCEPT !.settled = TRUE]
    ELSE IF call.i < script.fails
    THEN AiRun(AiFails(call, maxRetry), maxRetry, script)
    ELSE AiRun(AiReturns(call, script.content), maxRetry, script)

\* getBrowseAnswer(sourceText, browseQuery, maxRetry), lines 131-159;
\* scripts[c] is the provider's behaviour towards the c-th call started
getBrowseAnswer(len, maxRetry, scripts) ==
    LET calls == StartedCalls(len)
        results == [c \in 1..Len(calls) |-> AiRun(calls[c], maxRetry, scripts[c]).value]
    IN  IF len > charLimit THEN Combine(results) ELSE results[1]

\* String.prototype.trim on a text whose last token may end in line breaks
TrimOutput(t) ==
    LET u == Trim(t) IN
    IF u # <<>> /\ u[Len(u)] = " ---\n\n"
    THEN [u EXCEPT ![Len(u)] = " ---"]
    ELSE u

\* line 179: output?.trim() || "Browse error. Please try again."
BrowseOutput(output) ==
    IF output.null \/ TrimOutput(output.text) = <<>> THEN BrowseError
    ELSE TrimOutput(output.text)

\* the per-entry strings of lines 82 and 100
SearchBlock(q, res) ==
    <<"--- search result for [">> \o q \o <<"] ---\n">> \o res
       \o <<"\n--- end of search result ---">>
BrowseBlock(url, res) ==
    <<"--- answer based on [", url, "] ---\n">> \o res \o <<"\n--- end of answer ---">>

\* Array.prototype.join("\n\n")
RECURSIVE Join(_)
Join(texts) ==
    IF texts = <<>> THEN <<>>
    ELSE IF Len(texts) = 1 THEN texts[1]
    ELSE texts[1] \o <<"\n\n">> \o Join(Tail(texts))

\* a variant that collects the values in the order in which they settled
SettledOrder(calls, order) == [j \in 1..Len(order) |-> calls[order[j]].value]

\* the array Promise.all resolves to: the values in the order of the promises
PromiseAll(calls, order) == [k \in 1..Len(calls) |-> calls[k].value]

\* the promise of one entry's callback: phase "reading" and "answering" are
\* the awaits inside getBrowseResults (lines 165 and 178), "searching" the
\* await of line 81; failed: the collaborator failed on every attempt
NewEntry(input, phase) ==
    [input |-> input, phase |-> phase, sourceText |-> Page(0, FALSE), prompt |-> <<>>,
     settled |-> FALSE, raised |-> FALSE, failed |-> FALSE, value |-> <<>>]

Fulfil(e, value, failed) ==
    [e EXCEPT !.settled = TRUE, !.phase = "settled", !.value = value, !.failed = failed]

Reject(e) ==
    [e EXCEPT !.settled = TRUE, !.phase = "settled", !.raised = TRUE, !.failed = TRUE]

\* the outcome of a handler: the text of the result, or a rejection
Returned(text) == [raised |-> FALSE, text |-> text]
Raised == [raised |-> TRUE, text |-> <<>>]

MultiIdle ==
    /\ mTool = "" /\ mInputs = <<>> /\ mArg = <<>> /\ mPc = "idle"
    /\ mCalls = <<>> /\ mOrder = <<>> /\ mOut = Returned(<<>>)

MultiInit ==
    /\ \/ mTool = "multi_search" /\ mInputs \in SeqsUpTo(QueryEntries, MaxEntries) /\ mArg = <<>>
       \/ mTool = "multi_browse" /\ mInputs \in SeqsUpTo(UrlEntries, MaxEntries)
            /\ mArg \in BrowseQueries
    /\ mPc = "start"
    /\ mCalls = <<>>
    /\ mOrder = <<>>
    /\ mOut = Returned(<<>>)

\* the handler up to its await: the map of lines 80-83 or 98-101 creates one
\* promise per entry, in input order
MultiStart ==
    /\ mPc = "start"
    /\ mCalls' = [k \in 1..Len(mInputs) |->
                    NewEntry(mInputs[k], IF mTool = "multi_search" THEN "searching" ELSE "reading")]
    /\ mPc' = "waiting"
    /\ UNCHANGED <<mTool, mInputs, mArg, mOrder, mOut, sessVars, browseVars, searchVars>>

\* getSearchResults of entry k returns and the callback of lines 80-83 ends
SearchEntrySettle(k) ==
    /\ mPc = "waiting"
    /\ k \in 1..Len(mCalls)
    /\ mCalls[k].phase = "searching"
    /\ \E script \in SearchScripts :
          mCalls' = [mCalls EXCEPT ![k] =
                       Fulfil(@, SearchBlock(@.input, getSearchResults(@.input, script)),
                              script.fails >= 2 * DefaultSearchRetry)]
    /\ mOrder' = Append(mOrder, k)
    /\ UNCHANGED <<mTool, mInputs, mArg, mPc, mOut, sessVars, browseVars, searchVars>>

\* getBrowseResults of entry k has read the page, lines 162-176: it returns a
\* failure string, or goes on to getBrowseAnswer
BrowseEntryRead(k) ==
    /\ mPc = "waiting"
    /\ k \in 1..Len(mCalls)
    /\ mCalls[k].phase = "reading"
    /\ \E script \in JinaScripts :
          LET st == ReadLoop(ReadState(DefaultBrowseRetry), script, 0)
              e == mCalls[k]
              next == IF st.raised THEN Reject(e)
                      ELSE IF st.returned THEN Fulfil(e, BrowseBlock(e.input, AccessDenied), TRUE)
                      ELSE IF NoText(st.sourceText)
                      THEN Fulfil(e, BrowseBlock(e.input, BrowseError),
                                  script.fails >= DefaultBrowseRetry)
                      ELSE [e EXCEPT !.phase = "answering", !.sourceText = st.sourceText,
                                     !.prompt = IF mArg = <<>> THEN DefaultBrowseQuery ELSE mArg]
          IN  /\ mCalls' = [mCalls EXCEPT ![k] = next]
              /\ mOrder' = IF next.settled THEN Append(mOrder, k) ELSE mOrder
    /\ UNCHANGED <<mTool, mInputs, mArg, mPc, mOut, sessVars, browseVars, searchVars>>

\* getBrowseAnswer of entry k has returned, lines 177-179, and the callback of
\* lines 98-101 ends
BrowseEntryAnswer(k) ==
    /\ mPc = "waiting"
    /\ k \in 1..Len(mCalls)
    /\ mCalls[k].phase = "answering"
    /\ LET e == mCalls[k]
           n == Len(StartedCalls(e.sourceText.len))
       IN  \E scripts \in [1..n -> AiScripts] :
              mCalls' = [mCalls EXCEPT ![k] =
                 Fulfil(e, BrowseBlock(e.input,
                              BrowseOutput(getBrowseAnswer(e.sourceText.len, DefaultBrowseRetry,
                                                           scripts))),
                        \E c \in 1..n : scripts[c].fails >= DefaultBrowseRetry)]
    /\ mOrder' = Append(mOrder, k)
    /\ UNCHANGED <<mTool, mInputs, mArg, mPc, mOut, sessVars, browseVars, searchVars>>

\* Promise.all has settled, lines 84-85 or 102-103: it rejects as soon as one
\* promise has rejected, and resolves once all have resolved
MultiJoin ==
    /\ mPc = "waiting"
    /\ IF \E k \in 1..Len(mCalls) : mCalls[k].settled /\ mCalls[k].raised
       THEN mOut' = Raised
       ELSE /\ \A k \in 1..Len(mCalls) : mCalls[k].settled
            /\ mOut' = Returned(Join(PromiseAll(mCalls, mOrder)))
    /\ mPc' = "done"
    /\ UNCHANGED <<mTool, mInputs, mArg, mCalls, mOrder, sessVars, browseVars, searchVars>>

MultiNext ==
    \/ MultiStart
    \/ \E k \in 1..Len(mCalls) : SearchEntrySettle(k)
    \/ \E k \in 1..Len(mCalls) : BrowseEntryRead(k)
    \/ \E k \in 1..Len(mCalls) : BrowseEntryAnswer(k)
    \/ MultiJoin

----------------------------------------------------------------------------
(* Specifications. *)

SessNext ==
    \/ InitCall
    \/ OpenBegin
    \/ OpenStream
    \/ \E sid \in readable : Cancel(sid)
    \/ \E sid \in timers : KeepAlive(sid)
    \/ \E p \in SidParams(opened), b \in Bodies : SubmitMessage(p, b)
    \/ \E r \in DOMAIN inflight : Dispatch(r)
    \/ \E r \in DOMAIN inflight : HandlerSettle(r)

Init == SessInit /\ BrowseIdle /\ SearchIdle /\ MultiIdle

Next == SessNext

\* the bridge: MyMCP.fetch and its callbacks
Spec == Init /\ [][Next]_vars

InitBrowse == SessInit /\ BrowseInit /\ SearchIdle /\ MultiIdle

\* one call of getBrowseAnswer
SpecBrowse == InitBrowse /\ [][BrowseNext]_vars

InitSplit ==
    /\ SessInit /\ SearchIdle /\ MultiIdle
    /\ bLen \in SplitLengths /\ bRetry \in RetryBudgets
    /\ bPc = "start" /\ bCalls = <<>> /\ bOut = Null

\* getBrowseAnswer up to its await: the splitting of the text and the start of
\* the completion calls
SpecSplit == InitSplit /\ [][BrowseStart]_vars

InitSearch == SessInit /\ BrowseIdle /\ SearchInit /\ MultiIdle

\* one top-level call of getSearchResults
SpecSearch == InitSearch /\ [][SearchNext]_vars

\* the same, where every await is eventually resumed: the retrieval call
\* settles and the timers of the backoff fire
SpecSearchFair == SpecSearch /\ WF_vars(SearchNext)

InitMulti == SessInit /\ BrowseIdle /\ SearchIdle /\ MultiInit

\* one call of the multi_search or multi_browse handler
SpecMulti == InitMulti /\ [][MultiNext]_vars

----------------------------------------------------------------------------
(* Properties of the session registry and the dispatcher. *)

\* what a step is
IsSubmit == nreq' = nreq + 1
IsOpen == opened' = opened + 1
IsDispatch(r) ==
    /\ r \in DOMAIN inflight /\ inflight[r].phase = "body"
    /\ (r \notin DOMAIN inflight' \/ inflight'[r].phase # "body")
IsSettle(r) ==
    /\ r \in DOMAIN inflight /\ inflight[r].phase = "handler"
    /\ r \notin DOMAIN inflight'

\* the positions of the message events caused by submission r
MessagesOf(r) ==
    {p \in UNION {{<<s, i>> : i \in 1..Len(stream[s])} : s \in DOMAIN stream} :
        stream[p[1]][p[2]].event = "message" /\ stream[p[1]][p[2]].req = r}

\* the step appends exactly the event e to the stream of session s and leaves
\* every other stream as it is
AppendsOnly(s, e) ==
    /\ s \in DOMAIN stream
    /\ stream' = [stream EXCEPT ![s] = Append(@, e)]

TheFourTools == <<"search", "browse", "multi_search", "multi_browse">>

IsToolName(n) == \E i \in 1..Len(TheFourTools) : TheFourTools[i] = n

\* C1: a POST whose sessionId is given but not in the registry (never opened,
\* cancelled, or removed by a failed keep-alive) is answered 404 whatever its
\* body, writes no event to any stream, invokes no handler and suspends
\* nothing.
C1_UnknownSessionIs404 ==
    [][ (IsSubmit /\ ~Missing(last'.param) /\ last'.param.str \notin sessions)
          => /\ last'.outcome = Response(404)
             /\ stream' = stream
             /\ handlerCalls' = handlerCalls
             /\ inflight' = inflight ]_vars

\* a 404 was given for the id of a session that was opened and then removed
C1_Witness ==
    /\ last.outcome = Response(404)
    /\ last.param.str \in DOMAIN stream
    /\ last.param.str \notin sessions

\* C2: the status table.  400 when the sessionId parameter is missing, else
\* 404 when the session is not registered, else, for a session that is still
\* registered when the body has been read, 202 for initialize,
\* notifications/initialized, tools/list and tools/call whatever the params,
\* and 501 for every other method; a 501 or a notifications/initialized
\* submission writes no event.
C2_StatusTable ==
    [][ /\ (IsSubmit /\ Missing(last'.param)) => last'.outcome = Response(400)
        /\ (IsSubmit /\ ~Missing(last'.param) /\ last'.param.str \notin sessions)
              => last'.outcome = Response(404)
        /\ \A r \in DOMAIN inflight :
             (IsDispatch(r) /\ inflight[r].sid \in sessions /\ inflight[r].body.json = "object")
               => LET m == inflight[r].body.method IN
                  /\ last'.req = r
                  /\ (m \in {"initialize", "notifications/initialized", "tools/list", "tools/call"}
                        => last'.outcome = Response(202))
                  /\ (m \notin {"initialize", "notifications/initialized", "tools/list", "tools/call"}
                        => last'.outcome = Response(501) /\ stream' = stream)
                  /\ (m = "notifications/initialized" => stream' = stream) ]_vars

\* C3: a tools/call whose params.name is none of the four tools, dispatched on
\* a registered session, appends exactly one message event to that session's
\* stream, with the request's id and error -32601 "Tool not found"; no handler
\* is invoked and the fetch answers 202.
C3_ToolNotFound ==
    [][ \A r \in DOMAIN inflight :
          LET b == inflight[r].body IN
          (/\ IsDispatch(r) /\ inflight[r].sid \in sessions
           /\ b.json = "object" /\ b.method = "tools/call" /\ b.hasParams
           /\ ~IsToolName(b.name))
            => /\ \E e \in {stream'[inflight[r].sid][Len(stream'[inflight[r].sid])]} :
                    /\ AppendsOnly(inflight[r].sid, e)
                    /\ e.event = "message" /\ e.req = r
                    /\ e.data.id = b.id /\ e.data.kind = "error"
                    /\ e.data.code = -32601 /\ e.data.body = "Tool not found"
               /\ handlerCalls' = handlerCalls
               /\ r \notin DOMAIN inflight'
               /\ last' = [req |-> r, param |-> [given |-> TRUE, str |-> inflight[r].sid],
                           outcome |-> Response(202)] ]_vars

\* a Tool-not-found error is on a stream and its submission was answered 202
C3_Witness ==
    \E s \in DOMAIN stream : \E i \in 1..Len(stream[s]) :
        /\ stream[s][i].event = "message"
        /\ stream[s][i].data.kind = "error"
        /\ stream[s][i].data.code = -32601
        /\ last = [req |-> stream[s][i].req, param |-> [given |-> TRUE, str |-> s],
                   outcome |-> Response(202)]

\* the last event of the stream of session s after the step
Written(s) == stream'[s][Len(stream'[s])]

\* C4: when the handler of a tools/call settles while the session's stream is
\* open, exactly one message event is appended for the request, with the
\* request's id: the result if the handler returned (arguments of the declared
\* shape), the error -32000 with the exception's message if it raised.  No
\* submission ever has more than one message event.
C4_OneResponsePerCall ==
    /\ [](\A r \in 1..nreq : Cardinality(MessagesOf(r)) <= 1)
    /\ [][ \A r \in DOMAIN inflight :
             LET b == inflight[r].body IN
             (IsSettle(r) /\ inflight[r].sid \in readable)
               => /\ AppendsOnly(inflight[r].sid, Written(inflight[r].sid))
                  /\ Written(inflight[r].sid).event = "message"
                  /\ Written(inflight[r].sid).req = r
                  /\ Written(inflight[r].sid).data.id = b.id
                  /\ IF b.args = "valid"
                     THEN /\ Written(inflight[r].sid).data.kind = "result"
                          /\ Written(inflight[r].sid).data.body = HandlerResult(b.name)
                     ELSE /\ Written(inflight[r].sid).data.kind = "error"
                          /\ Written(inflight[r].sid).data.code = -32000
                          /\ Written(inflight[r].sid).data.body = HandlerMessage(b) ]_vars

\* a handler's result and another handler's -32000 error are both on a stream
C4_Witness ==
    /\ \E s \in DOMAIN stream : \E i \in 1..Len(stream[s]) :
          /\ stream[s][i].event = "message" /\ stream[s][i].data.kind = "result"
          /\ "content" \in DOMAIN stream[s][i].data.body
    /\ \E s \in DOMAIN stream : \E i \in 1..Len(stream[s]) :
          /\ stream[s][i].event = "message" /\ stream[s][i].data.kind = "error"
          /\ stream[s][i].data.code = -32000

\* C5: a tools/call naming a registered tool is acknowledged with 202 while
\* its handler is still running: as long as the handler has not settled the
\* fetch has answered 202 and no message of the request is on any stream, and
\* every step that writes the request's message finds it acknowledged.
C5_AckBeforeResult ==
    /\ [](\A r \in DOMAIN inflight :
            inflight[r].phase = "handler"
              => inflight[r].outcome = Response(202) /\ MessagesOf(r) = {})
    /\ [][ \A r \in DOMAIN inflight :
             (/\ inflight[r].body.json = "object" /\ inflight[r].body.method = "tools/call"
              /\ inflight[r].body.hasParams /\ IsToolName(inflight[r].body.name)
              /\ MessagesOf(r)' # MessagesOf(r))
               => inflight[r].outcome = Response(202) ]_vars

\* the latest fetch to finish answered 202 and its handler has not settled
C5_Witness ==
    \E r \in DOMAIN inflight :
        /\ inflight[r].phase = "handler"
        /\ last.req = r /\ last.outcome = Response(202)

\* C6: a stream-open draws an id no stream had before, registers it, and the
\* stream then holds exactly one event, the endpoint event with the submission
\* URL of that id; in every state each stream starts with its own endpoint
\* event and holds no other endpoint event, so the endpoint event precedes every
\* keep-alive frame and every message.
C6_EndpointFirst ==
    /\ [](\A s \in DOMAIN stream :
            /\ Len(stream[s]) >= 1
            /\ stream[s][1].event = "endpoint"
            /\ stream[s][1].data = <<"/mcp/messages?sessionId=", s>>
            /\ \A i \in 2..Len(stream[s]) : stream[s][i].event # "endpoint")
    /\ [][ IsOpen => \E s \in DOMAIN stream' \ DOMAIN stream :
                        /\ DOMAIN stream' = DOMAIN stream \cup {s}
                        /\ s \in sessions' /\ s \notin sessions
                        /\ Len(stream'[s]) = 1
                        /\ \A t \in DOMAIN stream : stream'[t] = stream[t] ]_vars

\* a stream holds its endpoint event, then a keep-alive frame and a message
C6_Witness ==
    \E s \in DOMAIN stream :
        /\ Len(stream[s]) >= 3
        /\ stream[s][1].event = "endpoint"
        /\ \E i, j \in 2..Len(stream[s]) :
              stream[s][i].event = "comment" /\ stream[s][j].event = "message"

\* the tools/list responses on the streams
ToolsLists ==
    {stream[p[1]][p[2]] :
       p \in {q \in UNION {{<<s, i>> : i \in 1..Len(stream[s])} : s \in DOMAIN stream} :
                /\ stream[q[1]][q[2]].event = "message"
                /\ stream[q[1]][q[2]].data.kind = "result"
                /\ "tools" \in DOMAIN stream[q[1]][q[2]].data.body}}

\* C7: every tools/list response lists the four tools search, browse,
\* multi_search, multi_browse in that order, any two responses list the same
\* descriptors (name, description, input schema), and the registry, once
\* filled, never changes.
C7_ToolsListFixed ==
    /\ [](\A e \in ToolsLists :
            /\ [i \in 1..Len(e.data.body.tools) |-> e.data.body.tools[i].name] = TheFourTools
            /\ \A f \in ToolsLists : f.data.body.tools = e.data.body.tools)
    /\ [](toolsRegistry # <<>>
            => [i \in 1..Len(toolsRegistry) |-> toolsRegistry[i].name] = TheFourTools)
    /\ [][toolsRegistry # <<>> => toolsRegistry' = toolsRegistry]_vars

\* two submissions were answered with a tools/list response, and a tool
\* handler was called
C7_Witness ==
    /\ \E e, f \in ToolsLists : e.req # f.req
    /\ handlerCalls > 0

\* a step that is a tick of a keep-alive timer
IsTick == beats' = beats + 1

\* the events the step appends to the stream of session s
NewEvents(s) ==
    SubSeq(stream'[s], (IF s \in DOMAIN stream THEN Len(stream[s]) ELSE 0) + 1, Len(stream'[s]))

\* C13: the registry holds only sessions whose stream is still readable: a
\* step that closes a stream removes its session, a session once removed is
\* never registered again, nothing is ever appended to a closed stream, and a
\* submission that names a closed session is answered 404 and is not suspended
\* or dispatched.
C13_RemovedBeforeRouted ==
    /\ [](sessions \subseteq readable)
    /\ [][ /\ \A s \in DOMAIN stream : s \notin sessions => s \notin sessions'
           /\ \A s \in DOMAIN stream : s \notin readable => stream'[s] = stream[s]
           /\ (IsSubmit /\ ~Missing(last'.param) /\ last'.param.str \in DOMAIN stream
                 /\ last'.param.str \notin readable)
                => /\ last'.outcome = Response(404)
                   /\ inflight' = inflight
                   /\ handlerCalls' = handlerCalls ]_vars

\* a submission for a cancelled session was answered 404 while an earlier
\* submission for the same session is still suspended
C13_Witness ==
    /\ last.outcome = Response(404)
    /\ last.param.str \in DOMAIN stream
    /\ last.param.str \notin readable
    /\ \E r \in DOMAIN inflight : inflight[r].sid = last.param.str /\ r < last.req

\* C14: a tick of the timer of a session whose stream is readable appends one
\* keep-alive frame to that stream and changes nothing else; a tick whose
\* write fails stops that timer and removes that session and changes no other
\* timer, registry entry or stream; only ticks write keep-alive frames; a
\* stopped timer never runs again and its session is and stays unregistered.
C14_Heartbeat ==
    /\ [](\A s \in DOMAIN stream \ timers : s \notin sessions)
    /\ [][ /\ IsTick
              => \E sid \in timers :
                   IF sid \in readable
                   THEN /\ AppendsOnly(sid, KeepAliveFrame)
                        /\ timers' = timers /\ sessions' = sessions
                   ELSE /\ stream' = stream
                        /\ timers' = timers \ {sid}
                        /\ sessions' = sessions \ {sid}
           /\ ~IsTick
              => /\ \A s \in DOMAIN stream : s \in timers => s \in timers'
                 /\ \A s \in DOMAIN stream' :
                       \A i \in 1..Len(NewEvents(s)) : NewEvents(s)[i].event # "comment"
           /\ \A s \in DOMAIN stream \ timers : s \notin timers' ]_vars

\* the timer of one session has been stopped by a failed write, and the other
\* session is registered, has its timer and has received a keep-alive frame
C14_Witness ==
    \E s, t \in DOMAIN stream :
        /\ s # t
        /\ s \notin timers /\ s \notin sessions
        /\ t \in timers /\ t \in sessions
        /\ \E i \in 1..Len(stream[t]) : stream[t][i].event = "comment"

\* C15: when the handler of a tools/call settles after its session's stream
\* was cancelled, the write-back changes no stream, no registry entry and no
\* timer, and ends without an error that nothing handles.
C15_SilentDrop ==
    [][ \A r \in DOMAIN inflight :
          (IsSettle(r) /\ inflight[r].sid \notin readable)
            => /\ stream' = stream
               /\ sessions' = sessions
               /\ timers' = timers
               /\ unhandled' = unhandled ]_vars

\* C20: every message event a step appends to a stream was caused by a
\* submission that named the session of that stream; a submission, a dispatch
\* or a handler's settling never changes the registry; and while a handler is
\* running, a submission for any registered session is accepted and every
\* suspended submission can be dispatched.
C20_Isolation ==
    /\ [][ /\ \A s \in DOMAIN stream' :
                \A i \in 1..Len(NewEvents(s)) :
                   NewEvents(s)[i].event = "message"
                     => /\ NewEvents(s)[i].req \in DOMAIN inflight
                        /\ inflight[NewEvents(s)[i].req].sid = s
           /\ (IsSubmit \/ \E r \in DOMAIN inflight : IsDispatch(r) \/ IsSettle(r))
                => sessions' = sessions ]_vars
    /\ []((\E r \in DOMAIN inflight : inflight[r].phase = "handler")
            => /\ \A r \in DOMAIN inflight : inflight[r].phase = "body" => ENABLED Dispatch(r)
               /\ Events < MaxEvents
                    => \A s \in sessions, b \in Bodies :
                          ENABLED (/\ SubmitMessage([given |-> TRUE, str |-> s], b)
                                   /\ last'.outcome = Pending))

\* while the handler of a call on one session is running, a later submission
\* on another session has been answered on that session's stream
C20_Witness ==
    \E r \in DOMAIN inflight :
        /\ inflight[r].phase = "handler"
        /\ \E s \in DOMAIN stream : \E i \in 1..Len(stream[s]) :
              /\ s # inflight[r].sid
              /\ stream[s][i].event = "message"
              /\ stream[s][i].req > r

----------------------------------------------------------------------------
(* Properties of getBrowseAnswer and getSearchResults. *)

\* C8: once getBrowseAnswer has returned for a text longer than the budget, if
\* some chunk's call exhausted its retries (it returned null) the value
\* returned is null, never a composite, whichever chunk it was and in whatever
\* order the calls settled.
C8_AllOrNothing ==
    (/\ bPc = "done" /\ bLen > charLimit
     /\ \E c \in 1..Len(bCalls) : bCalls[c].value.null /\ bCalls[c].i = bRetry)
      => bOut = Null

\* the second chunk's call failed on every attempt after the first chunk's
\* call had returned an answer, and null was returned
C8_Witness ==
    /\ bPc = "done" /\ bLen > charLimit /\ Len(bCalls) >= 2
    /\ ~Falsy(bCalls[1].value) /\ bCalls[1].i < bCalls[2].i
    /\ bCalls[2].value.null /\ bCalls[2].i = bRetry
    /\ bOut = Null

\* the ceiling of a / b, by floored division of the negated dividend
CeilQuotient(a, b) == 0 - ((0 - a) \div b)

\* C9: for a text longer than the budget getBrowseAnswer starts exactly
\* ceil(L / ceil(L / ceil(L / C))) completion calls, which is numSplit =
\* ceil(L / C); for a text within the budget it starts one call on the whole
\* text.
C9_CallCount ==
    bPc = "waiting"
      => IF bLen > charLimit
         THEN /\ Len(bCalls) = CeilQuotient(bLen, CeilQuotient(bLen, CeilQuotient(bLen, charLimit)))
              /\ Len(bCalls) = CeilQuotient(bLen, charLimit)
         ELSE /\ Len(bCalls) = 1
              /\ bCalls[1].range = [from |-> 0, to |-> bLen]

\* calls were started for a text that splits into at least three chunks of a
\* length that does not divide the text's
C9_Witness ==
    /\ bPc = "waiting" /\ bLen > charLimit
    /\ Len(bCalls) >= 3
    /\ bLen % Len(bCalls) # 0

\* C10: when the attempts on a query that contains a quote all end empty, the
\* value returned is the fallback message followed by the result text of the
\* unquoted query if that text is not empty, whatever it contains, and the
\* empty-result message if it is empty.
C10_QuotedFallback ==
    (/\ sPc = "done" /\ Includes(sQuery, Quote)
     /\ Len(sStack) >= 1 /\ sStack[1].sourceText = <<>>)
      => IF Len(sStack) = 2 /\ sStack[2].sourceText # <<>>
         THEN sOut = FallbackMessage(sQuery) \o <<"\n\n">> \o sStack[2].sourceText
         ELSE sOut = EmptyResultMessage

\* the composite of the answers of the chunks, in chunk order
RECURSIVE PartsFrom(_, _)
PartsFrom(answers, k) ==
    IF k > Len(answers) THEN <<>>
    ELSE <<"--- begin of result part ", ToString(k), " ---\n">> \o answers[k].text
           \o <<"\n--- end of result part ", ToString(k), " ---\n\n">>
           \o PartsFrom(answers, k + 1)

\* C16: once getBrowseAnswer has returned for a text longer than the budget,
\* if every chunk's call returned a text (no call exhausted its retries), the
\* value returned is the split note followed by the answers in chunk order,
\* each between its "result part i" delimiters, i from 1 on; null is returned
\* only if some call exhausted its retries.
C16_CompositeWhenAllSucceed ==
    (bPc = "done" /\ bLen > charLimit)
      => /\ (\A c \in 1..Len(bCalls) : ~bCalls[c].value.null)
              => bOut = Str(<<SplitNote>>
                            \o PartsFrom([c \in 1..Len(bCalls) |-> bCalls[c].value], 1))
         /\ bOut = Null => \E c \in 1..Len(bCalls) : bCalls[c].value.null

\* C17: a getAiResponse call with budget n fails at most n times and never
\* goes on after a success or after the n-th failure; once settled its value
\* is null exactly if all n attempts failed; the delays it has waited are
\* 1000, 2000, 4000, ..., one after each failure but the n-th; and a step of
\* one call leaves every other call, and the number of calls, as they are.
C17_Retry ==
    /\ [](\A c \in 1..Len(bCalls) :
            LET call == bCalls[c] IN
            /\ call.i <= bRetry
            /\ call.settled <=> (call.i = bRetry \/ ~call.value.null)
            /\ (call.settled /\ ~call.value.null) => call.i < bRetry
            /\ (call.settled /\ call.value.null) <=> call.i = bRetry
            /\ Len(call.delays) = IF call.i < bRetry THEN call.i ELSE bRetry - 1
            /\ \A k \in 1..Len(call.delays) : call.delays[k] = 1000 * 2^(k - 1)
            /\ \A k \in 2..Len(call.delays) : call.delays[k] = 2 * call.delays[k - 1])
    /\ [][bPc = "waiting"
            => /\ Len(bCalls') = Len(bCalls)
               /\ \A c \in 1..Len(bCalls) :
                     /\ bCalls[c].settled => bCalls'[c] = bCalls[c]
                     /\ bCalls'[c].range = bCalls[c].range
                     /\ bCalls'[c].i \in {bCalls[c].i, bCalls[c].i + 1}
                     /\ bCalls'[c] # bCalls[c]
                          => \A d \in 1..Len(bCalls) \ {c} : bCalls'[d] = bCalls[d] ]_vars

\* with a budget of 3, the first chunk's call has succeeded at its third
\* attempt, after delays of 1000 and 2000, while the second chunk's call has
\* failed three times
C17_Witness ==
    /\ bRetry = 3 /\ Len(bCalls) = 2
    /\ bCalls[1].settled /\ ~bCalls[1].value.null /\ bCalls[1].delays = <<1000, 2000>>
    /\ bCalls[2].settled /\ bCalls[2].value.null /\ bCalls[2].i = 3
    /\ bCalls[2].delays = <<1000, 2000>>

\* C18: a top-level getSearchResults call returns; at most two activations
\* exist, the second only after the first made maxRetry attempts that all
\* ended empty on a query with a quote, and its query has no quote; an
\* activation makes at most maxRetry retrieval calls and none after a
\* non-empty result; at most 2 * maxRetry retrieval calls are made in all.
C18_Terminates ==
    /\ <>(sPc = "done")
    /\ [](/\ Len(sStack) <= 2
          /\ \A j \in 1..Len(sStack) :
                /\ sStack[j].maxRetry = DefaultSearchRetry
                /\ sStack[j].calls <= sStack[j].maxRetry
                /\ sStack[j].calls = sStack[j].i + (IF sStack[j].sourceText # <<>> THEN 1 ELSE 0)
                /\ sStack[j].sourceText # <<>> => ~sStack[j].inLoop
          /\ Len(sStack) = 2
                => /\ ~sStack[1].inLoop
                   /\ sStack[1].calls = sStack[1].maxRetry
                   /\ sStack[1].sourceText = <<>>
                   /\ Includes(sStack[1].query, Quote)
                   /\ ~Includes(sStack[2].query, Quote)
          /\ (IF Len(sStack) >= 1 THEN sStack[1].calls ELSE 0)
               + (IF Len(sStack) >= 2 THEN sStack[2].calls ELSE 0) <= 2 * DefaultSearchRetry)
    /\ [][Len(sStack') >= Len(sStack)]_vars

\* a call on a quoted query has returned after three empty attempts on the
\* query and three more on the unquoted query
C18_Witness ==
    /\ sPc = "done" /\ Len(sStack) = 2
    /\ sStack[1].calls = 3 /\ sStack[2].calls = 3
    /\ sStack[2].sourceText = <<>>

\* C19: for a text longer than the budget, with numSplit = ceil(L / C) and
\* chunkLen = ceil(L / numSplit), the call of chunk i is on the range
\* [i * chunkLen, min(L, (i + 1) * chunkLen + 1024)); the range is not empty
\* and at most chunkLen + 1024 long; the first range starts at 0, the last one
\* ends at L and each range starts inside the one before (so every position is
\* covered); and two consecutive ranges share 1024 positions, fewer only if
\* the earlier one ends at L.
C19_ChunkCoverage ==
    (bPc = "waiting" /\ bLen > charLimit)
      => LET numSplit == CeilQuotient(bLen, charLimit)
             chunkLen == CeilQuotient(bLen, numSplit)
             rng(i) == bCalls[i + 1].range
         IN  /\ Len(bCalls) = numSplit
             /\ \A i \in 0..(numSplit - 1) :
                   /\ rng(i).from = i * chunkLen
                   /\ rng(i).to = IF (i + 1) * chunkLen + 1024 < bLen
                                  THEN (i + 1) * chunkLen + 1024 ELSE bLen
                   /\ rng(i).from < rng(i).to
                   /\ rng(i).to - rng(i).from <= chunkLen + 1024
             /\ rng(0).from = 0
             /\ rng(numSplit - 1).to = bLen
             /\ \A i \in 0..(numSplit - 2) :
                   /\ rng(i + 1).from = (i + 1) * chunkLen
                   /\ rng(i + 1).from < rng(i).to
                   /\ \/ rng(i).to - rng(i + 1).from = 1024
                      \/ rng(i).to = bLen /\ rng(i).to - rng(i + 1).from < 1024

\* calls were started on the chunks of a text in two or more chunks: the
\* first two share 1024 positions and the last one is clipped at the end of
\* the text
C19_Witness ==
    /\ bPc = "waiting" /\ bLen > charLimit /\ Len(bCalls) >= 2
    /\ bCalls[1].range.to - bCalls[2].range.from = 1024
    /\ bCalls[Len(bCalls)].range.to = bLen
    /\ Len(bCalls) * CeilQuotient(bLen, Len(bCalls)) + 1024 > bLen

----------------------------------------------------------------------------
(* Properties of the multi_search and multi_browse handlers. *)

\* the banner tokens of the tool called
BeginBanner == IF mTool = "multi_search" THEN "--- search result for [" ELSE "--- answer based on ["
EndBanner == IF mTool = "multi_search" THEN "\n--- end of search result ---" ELSE "\n--- end of answer ---"

\* an entry as it is written into its banner
EntryText(x) == IF mTool = "multi_search" THEN x ELSE <<x>>

\* the positions of a token in a text, and the k-th of them
PositionsOf(text, tok) == {i \in 1..Len(text) : text[i] = tok}
Nth(S, k) == CHOOSE i \in S : Cardinality({j \in S : j < i}) = k - 1

\* the k-th delimited block of a text
BlockAt(text, k) ==
    SubSeq(text, Nth(PositionsOf(text, BeginBanner), k), Nth(PositionsOf(text, EndBanner), k))

\* C11: the text a multi_search or multi_browse call returns holds exactly one
\* delimited block per entry of the input list, and the k-th block is the one
\* of the k-th entry, in whatever order the per-entry calls settled.
C11_OrderPreserved ==
    (mPc = "done" /\ ~mOut.raised)
      => /\ Cardinality(PositionsOf(mOut.text, BeginBanner)) = Len(mInputs)
         /\ Cardinality(PositionsOf(mOut.text, EndBanner)) = Len(mInputs)
         /\ \A k \in 1..Len(mInputs) :
               LET b == BlockAt(mOut.text, k)
                   x == EntryText(mInputs[k])
               IN  /\ Len(b) >= Len(x) + 3
                   /\ b[1] = BeginBanner
                   /\ SubSeq(b, 2, Len(x) + 1) = x
                   /\ b[Len(x) + 2] = "] ---\n"
                   /\ b[Len(b)] = EndBanner
                   /\ PositionsOf(b, BeginBanner) = {1}

\* a call with two different entries has returned after the second entry's
\* call settled before the first one's
C11_Witness ==
    /\ mPc = "done" /\ ~mOut.raised
    /\ Len(mInputs) = 2 /\ mInputs[1] # mInputs[2]
    /\ mOrder = <<2, 1>>

\* the strings the service returns for a failure
FailureStrings == {EmptyResultMessage, AccessDenied, BrowseError}

\* the text between the banners of a block of entry x
BodyOf(block, x) == SubSeq(block, Len(EntryText(x)) + 3, Len(block) - 1)

\* C12: a multi_search or multi_browse call never raises; the text it returns
\* holds, for every entry, the block that entry's call settled with; the block
\* of an entry whose collaborator failed on every attempt holds one of the
\* failure strings; and an entry's settled value is never changed by what
\* happens to the other entries.
C12_FailureContained ==
    /\ [](mPc = "done"
            => /\ ~mOut.raised
               /\ \A k \in 1..Len(mInputs) :
                     /\ mCalls[k].settled /\ ~mCalls[k].raised
                     /\ BlockAt(mOut.text, k) = mCalls[k].value)
    /\ [](\A k \in 1..Len(mCalls) :
            (mCalls[k].settled /\ mCalls[k].failed)
              => /\ ~mCalls[k].raised
                 /\ BodyOf(mCalls[k].value, mCalls[k].input) \in FailureStrings)
    /\ [][\A k \in 1..Len(mCalls) : mCalls[k].settled => mCalls'[k] = mCalls[k]]_vars

\* a call with two entries has returned: the collaborator failed on every
\* attempt for the first entry, whose block holds a failure string, and the
\* second entry's block holds a result
C12_Witness ==
    /\ mPc = "done" /\ ~mOut.raised /\ Len(mInputs) = 2
    /\ mCalls[1].failed /\ ~mCalls[2].failed
    /\ BodyOf(BlockAt(mOut.text, 1), mInputs[1]) \in FailureStrings
    /\ BodyOf(BlockAt(mOut.text, 2), mInputs[2]) \notin FailureStrings

====
